---- MODULE Spec2Model ----
(***************************************************************************)
(* The in-browser splicing pipeline of easy-hook: processVideo of          *)
(* app/composables/useWebCodecsProcessor.ts, and the useVideoProcessor     *)
(* wrapper that calls it with fixed options.                               *)
(*                                                                         *)
(* One run of processVideo is an async function on a single event loop.    *)
(* pc is the await the run is suspended at.  A step of the run is the      *)
(* synchronous code between two awaits; the callbacks of the decoder and   *)
(* of the encoder are tasks of the same event loop, so they run only while *)
(* the run is suspended at an await that waits for a task (Suspended).     *)
(* An await of a plain value (await videoEncoder.encode(...)) resumes in a *)
(* microtask, before any task, so the hook loop runs without any callback  *)
(* in between.                                                             *)
(*                                                                         *)
(* VideoDecoder, VideoEncoder, the video element, createImageBitmap and    *)
(* the image decoders are the host's.  What the source does not decide     *)
(* about them is a choice of the environment: a host call returns or       *)
(* throws, a promise of the host resolves or rejects, a codec reports an   *)
(* error (and is closed by it) at any moment at which it is configured.    *)
(* processVideo waits until the decoder is closed and then calls close()   *)
(* on it: it takes a call on a closed codec to be harmless, so such a call *)
(* is not required to throw.  A decoder is closed by close() or by an      *)
(* error only, and no code before the wait closes it.                      *)
(***************************************************************************)
EXTENDS Integers, Sequences, FiniteSets, TLC

\* ------------------------------------------------------------- bounds

\* The most frames the decoder delivers in one run.
MaxFrames == 2

\* The polls of the decode wait that are counted (the wait itself has no limit).
MaxPolls == 2

\* Frame rates and hook durations (milliseconds) a caller passes in options.
FpsValues == {25, 30}
FrameDurationsMs == {10, 33, 100}

\* Timestamps and durations (microseconds) of the frames the decoder delivers.
FrameTimestamps == {0, 40000}
FrameDurations == {0, 40000}

\* The tracks of the MP4 files given to extractAvcDescriptionFromMp4.
MaxTracks == 2

\* The calls of processVideo made on one instance of the composable.
MaxCalls == 3

\* The runs of the command-line script process_video.js on one file system.
MaxRuns == 3

\* createImageCanvas: the sides of the images and of the target sizes, in pixels,
\* and the bits of the significand of a Number.  A Number of the program has 53;
\* the model rounds every result the same way (to nearest, ties to even) to
\* MantissaBits bits, which keeps the integers of TLC in range.
MaxSide == 16
MantissaBits == 7

\* ---------------------------------------------------------- constants

\* DEFAULT_OPTIONS, and the options useVideoProcessor passes.
DefaultFps == 30
DefaultFrameDurationMs == 1000

\* 1000000 / fps: microseconds in a second.
MicrosPerSecond == 1000000

\* MESSAGES
CHECKING_SUPPORT == "Verification de la compatibilite WebCodecs..."
NOT_SUPPORTED == "WebCodecs API n'est pas supporte par votre navigateur."
DECODING_VIDEO == "Decodage de la video..."
PROCESSING_FRAMES == "Traitement des images..."
ENCODING_VIDEO == "Encodage de la video..."
PROCESSING_COMPLETE == "Traitement termine avec succes!"
ERROR_PROCESSING == "Erreur lors du traitement: "
PREPARING_AUDIO == "Preparation de l'audio..."
MUXING_STREAMS == "Combinaison des flux audio et video..."
WEBCODECS_PROCESSING == "Traitement avec WebCodecs API..."
MOV_CONVERTING == "Conversion MOV -> MP4 en cours..."
MOV_CONVERTED == "Conversion MOV -> MP4 terminee."
PREPARING_HOOK == "Preparation de l'image hook..."

\* Messages of the errors a stage throws.
MOV_FAILED == "ffmpeg.wasm: conversion failed"
IMAGE_FAILED == "Impossible de charger l'image hook.png. Verifiez que le format est supporte."
CANVAS_CONTEXT_FAILED == "Failed to get canvas context"
ENCODER_CONFIG_FAILED == "VideoEncoder.configure failed"
METADATA_FAILED == "Failed to load video metadata"
DECODER_CONFIG_FAILED == "VideoDecoder.configure failed"
READ_FAILED == "arrayBuffer failed"
DECODE_CALL_FAILED == "VideoDecoder.decode failed"
ENCODE_CALL_FAILED == "VideoEncoder.encode failed"
BITMAP_FAILED == "createImageBitmap failed"
FLUSH_FAILED == "VideoEncoder.flush failed"
AUDIO_FAILED == "extractAudio failed"
DECODER_CLOSE_FAILED == "VideoDecoder.close failed"
ENCODER_CLOSE_FAILED == "VideoEncoder.close failed"

\* error.value as the codec error callbacks set it.
DECODER_ERROR == "Erreur de decodage: decoder fault"
ENCODER_ERROR == "Erreur d'encodage: encoder fault"

\* error.value = null.
NoError == "<null>"

\* The rejection of extractAvcDescriptionFromMp4 for a file with no avc1 track or
\* no avcC in it (processVideo treats its other rejections the same way).
AVC_NOT_FOUND == "Impossible de trouver la description AVC (SPS/PPS) dans le MP4."

\* avcRejection before extractAvcDescriptionFromMp4 has settled, and when it resolved.
AvcPending == "<pending>"
AvcResolved == "<resolved>"

\* The value of a run that has returned no Blob; a Blob is <<its number of chunks>>.
NoBlob == <<>>

VARIABLES
    pc,                 \* the await processVideo is suspended at
    caller,             \* "direct" | "wrapper": who called processVideo
    innerStarted,       \* processVideo of useWebCodecsProcessor was entered
    hasCallback,        \* a progressCallback was passed
    fps,                \* processingOptions.fps
    frameDurationMs,    \* processingOptions.frameDuration, in milliseconds
    hookFrameCount,     \* hookFrameCount
    hostSupported,      \* the window has VideoEncoder, VideoDecoder, EncodedVideoChunk
    isSupported,        \* isSupported.value
    isProcessing,       \* isProcessing.value
    error,              \* error.value of useWebCodecsProcessor
    wrapperError,       \* error.value of useVideoProcessor
    progressLog,        \* the calls of progressCallback, in order
    decoderState,       \* videoDecoder.state, "none" before it is created
    encoderState,       \* videoEncoder.state, "none" before it is created
    decoderErrorFired,  \* the decoder's error callback has run
    encoderErrorFired,  \* the encoder's error callback has run
    decodeFed,          \* videoDecoder.decode was called
    decodedFrames,      \* decodedFrames
    i,                  \* the hook loop's i
    j,                  \* the index of the frame the original loop is at
    submitted,          \* the frames passed to videoEncoder.encode, in order
    closeCount,         \* for each frame and bitmap of the run, the calls of its close()
    pending,            \* frames the encoder has accepted and not yet emitted
    encodedChunks,      \* encodedChunks.length
    milestones,         \* the steps of the run that have completed
    thrown,             \* the message of the error the run rejected with
    result,             \* <<the number of chunks of the returned Blob>>, or NoBlob
    avcRejection,       \* the message extractAvcDescriptionFromMp4 rejected with, if it did
    imageFailures,      \* what each image loading strategy threw, when loadImage rejected
    imageErrorParts,    \* the parts of the message of the error loadImage rejected with
    supportChecks,      \* the calls of checkSupport made by processVideo
    polls,              \* the polls of the pending decode wait that found the decoder not
                        \* closed, counted up to MaxPolls
    audioPc,            \* where extractAudio is: the event it waits for, or how it settled
    audioOutcome,       \* what made extractAudio settle: "noAudioTrack", "threw" (the catch
                        \* of 522-527), "videoError" or "recorded"
    avcFile,            \* the file extractAvcDescriptionFromMp4 is called with: what the
                        \* FileReader reads of it and what MP4Box finds in it
    avcPc,              \* where a call of extractAvcDescriptionFromMp4 is
    avcPromise,         \* the promise extractAvcDescriptionFromMp4 returned
    calls,              \* for each of several calls of processVideo on one instance: where
                        \* it is
    request,            \* the multipart request the upload endpoint handles: the part sent
                        \* in each of the fields video and image
    endpointPc,         \* where the endpoint's handler is
    response,           \* the status and message the endpoint answers with
    processStarted,     \* the endpoint has called processVideo (the ffmpeg run)
    tempDir,            \* the temporary directory of the request
    cliFiles,           \* the output directory of process_video.js: for each path, the run
                        \* that wrote the file there, 0 when there is no such file
    cliRuns,            \* the runs of process_video.js so far, with what each one did
    imageHost,          \* a call of loadImage: whether the file is HEIC, and for each step
                        \* of loading it whether the host lets it succeed
    imagePc,            \* the step the call of loadImage waits for, or how it settled
    imageTried,         \* the steps the call has attempted, in order
    canvasInput,        \* a call of createImageCanvas: the size of the image, the target
                        \* size, whether the image loads and whether the canvas has a context
    canvas              \* the canvas of that call: its size and the calls made on its context

input == <<caller, innerStarted, hasCallback, fps, frameDurationMs, hookFrameCount, hostSupported>>
refs == <<isSupported, isProcessing, error, wrapperError, progressLog>>
codecs == <<decoderState, encoderState, decoderErrorFired, encoderErrorFired, decodeFed,
            pending, encodedChunks>>
frames == <<decodedFrames, i, j, submitted, closeCount>>
ctl == <<pc, milestones, thrown, result>>
audio == <<audioPc, audioOutcome>>
media == <<avcRejection, imageFailures, imageErrorParts, supportChecks, polls, audio>>
processor == <<input, refs, codecs, frames, ctl, media>>
avcVars == <<avcFile, avcPc, avcPromise>>
callVars == <<calls>>
endpointVars == <<request, endpointPc, response, processStarted, tempDir>>
cliVars == <<cliFiles, cliRuns>>
imageVars == <<imageHost, imagePc, imageTried>>
canvasVars == <<canvasInput, canvas>>
side == <<avcVars, callVars, endpointVars, cliVars, imageVars, canvasVars>>
vars == <<processor, side>>

\* ------------------------------------------------------- pure helpers

\* WebIDL's conversion of a non-negative number num/den to long long (the type of
\* VideoFrameInit.timestamp and, unsigned, of duration): the integer part.
ToLongLong(num, den) == num \div den

\* Math.round(frameDuration * fps), frameDuration = ms / 1000: the nearest
\* integer, a half rounding up.
HookFrameCount_NoRound(ms, f) == (ms * f) \div 1000
HookFrameCount(ms, f) == (2 * ms * f + 1000) \div 2000

\* i * (1000000 / fps), as the fraction num / fps.
HookTimestampNum_WholeStep(k, f) == k * ((MicrosPerSecond \div f) * f)
HookTimestampNum(k, f) == k * MicrosPerSecond

\* keyFrame: i === 0
KeyFrameRequest_Always(k) == TRUE
KeyFrameRequest(k) == k = 0

\* frame.timestamp + (hookFrameCount * (1000000 / fps)), as the fraction num / fps.
AdjustedTimestampNum_NoShift(t, n, f) == t * f
AdjustedTimestampNum_Unscaled(t, n, f) == t * f + n * f
AdjustedTimestampNum(t, n, f) == t * f + n * MicrosPerSecond

\* new VideoFrame(imageCanvas, {timestamp, duration}) of the hook loop.
HookFrame(k, f) ==
    [kind |-> "hook", index |-> k,
     tsNum |-> HookTimestampNum(k, f), tsDen |-> f,
     timestamp |-> ToLongLong(HookTimestampNum(k, f), f),
     hasDuration |-> TRUE, duration |-> ToLongLong(MicrosPerSecond, f),
     keyFrame |-> KeyFrameRequest(k)]

\* frame.duration !== null && frame.duration !== undefined, 810: a decoded frame
\* whose hasDuration is FALSE has a null (or undefined) duration.
HasDuration_Truthy(frame) == frame.hasDuration /\ frame.duration # 0
HasDuration(frame) == frame.hasDuration

\* new VideoFrame(bitmap, frameOptions) of the original loop; encode(newFrame)
\* passes no options, so no key frame is requested.
NewFrame(k, frame, n, f) ==
    [kind |-> "orig", index |-> k,
     tsNum |-> AdjustedTimestampNum(frame.timestamp, n, f), tsDen |-> f,
     timestamp |-> ToLongLong(AdjustedTimestampNum(frame.timestamp, n, f), f),
     hasDuration |-> HasDuration(frame),
     duration |-> IF HasDuration(frame) THEN frame.duration ELSE 0,
     keyFrame |-> FALSE]

\* The frames and bitmaps of a run: <<"decoded", k>> the k-th frame the decoder
\* delivered, <<"hook", k>> the k-th hookFrame, <<"bitmap", k>> and <<"new", k>> the
\* bitmap and the newFrame made from the k-th decoded frame.
Created(cc, ids) == [x \in DOMAIN cc \cup ids |-> IF x \in DOMAIN cc THEN cc[x] ELSE 0]
Closed(cc, ids) ==
    [x \in DOMAIN cc |-> cc[x] + Cardinality({n \in DOMAIN ids : ids[n] = x})]

\* hookFrame.close(), 786.
HookCloses(k) == << <<"hook", k>> >>

\* newFrame.close(), bitmap.close() and frame.close() of a frame that was encoded,
\* 817-818 and 824.
EncodedCloses(k) == << <<"new", k>>, <<"bitmap", k>>, <<"decoded", k>> >>

\* frame.close() of a frame that was skipped for want of a context, 819-824.
SkippedCloses_Twice(k) == << <<"decoded", k>>, <<"decoded", k>> >>
SkippedCloses(k) == << <<"decoded", k>> >>

\* updateProgress: progressCallback is called when one was passed.
UpdateProgress(cb, log, p, m) == IF cb THEN Append(log, <<p, m>>) ELSE log

\* The progress value of the catch block and of completion.
ErrorProgress_Stale == 0 + 5
ErrorProgress == 0
CompleteProgress_Early == 100 - 10
CompleteProgress == 100

\* videoDecoder.state === 'closed': the test of the decode wait.
DecodeComplete_NoWait(state) == TRUE
DecodeComplete(state) == state = "closed"

\* The awaits that wait for a task of the event loop.
Suspended ==
    pc \in {"convertMov", "createImageCanvas", "loadMetadata", "extractAvc", "readVideo",
            "decodeWait", "awaitBitmap", "awaitFlush", "awaitAudio", "resolved", "rejected"}

\* The last timestamp the decoder delivered (frames come in presentation order).
LastDelivered == IF decodedFrames = <<>> THEN 0 ELSE decodedFrames[Len(decodedFrames)].timestamp

\* ------------------------------------------------- loadImage, 255-420

\* The kinds of value a failing strategy throws: an Error, a string, an object
\* with a message, an object JSON.stringify cannot serialise, and any other value
\* (undefined, null, a number).
ErrorKinds == {"Error", "string", "object", "circular", "other"}

\* A strategy that was not reached, one that succeeded, and the values one throws.
NotTried == [kind |-> "notTried", message |-> ""]
Ok == [kind |-> "ok", message |-> ""]
Thrown(msg) ==
    {[kind |-> k, message |-> IF k \in {"Error", "string", "object"} THEN msg ELSE ""] :
        k \in ErrorKinds}
Failed(o) == o.kind \in ErrorKinds

\* The messages of the failures of the strategies.
LIBHEIF_FAILED == "Aucune image trouvee dans le fichier HEIC"
HEIC2ANY_FAILED == "ERR_LIBHEIF format not supported"
JPEG_BITMAP_FAILED == "The source image could not be decoded (converted JPEG)"
NATIVE_FAILED == "The source image could not be decoded"
DATA_URL_FAILED == "Echec du chargement de l'image via Data URL"

\* The text of the messages loadImage and convertHeicToJpeg build, 243 and 394-398.
HEIC_CONVERT_FAILED == "Impossible de convertir l'image HEIC. Toutes les methodes ont echoue:"
HEIC_METHOD_LIBHEIF == "Methode libheif-js: "
HEIC_METHOD_HEIC2ANY == "Methode heic2any: "
HEIC_LOAD_FAILED == "Impossible de traiter l'image HEIC. Toutes les methodes ont echoue:"
HEIC_STEP_CONVERSION == "1. Conversion avec heic2any: "
HEIC_STEP_NATIVE == "2. Support natif du navigateur: "
HEIC_STEP_DATA_URL == "3. Methode Data URL: "
HEIC_ADVICE == "Veuillez essayer avec une image au format JPG ou PNG, ou convertir votre image HEIC avant de l'importer."
UNKNOWN_ERROR == "Erreur inconnue"
UNSERIALISABLE_ERROR == "Erreur non serialisable"
WITH_LIBHEIF == " avec libheif-js"
WITH_HEIC2ANY == " avec heic2any"

\* The instanceof Error / typeof chain that turns a caught value into text, as the
\* parts of the text: 178-189, 226-237, 275-286, 298-309, 380-391.
FormatError_Unknown(e, suffix) == <<UNKNOWN_ERROR \o suffix>>
FormatError(e, suffix) ==
    CASE e.kind \in {"Error", "string"} -> <<e.message>>
      [] e.kind = "object" -> <<"{\"message\":\"", e.message, "\"}">>
      [] e.kind = "circular" -> <<UNSERIALISABLE_ERROR \o suffix>>
      [] OTHER -> <<UNKNOWN_ERROR \o suffix>>

\* The strategies in the order loadImage tries them, with the outcome of each: a
\* strategy is reached only when the ones before it have failed.
ImageAttempts(heic) ==
    IF ~heic
      THEN {[direct |-> d, libheif |-> NotTried, heic2any |-> NotTried,
             jpegBitmap |-> NotTried, native |-> NotTried, dataUrl |-> NotTried] :
                d \in {Ok} \cup Thrown(NATIVE_FAILED)}
      ELSE {a \in [direct : {NotTried},
                   libheif : {Ok} \cup Thrown(LIBHEIF_FAILED),
                   heic2any : {NotTried, Ok} \cup Thrown(HEIC2ANY_FAILED),
                   jpegBitmap : {NotTried, Ok} \cup Thrown(JPEG_BITMAP_FAILED),
                   native : {NotTried, Ok} \cup Thrown(NATIVE_FAILED),
                   dataUrl : {NotTried, Ok} \cup Thrown(DATA_URL_FAILED)] :
               /\ (a.heic2any = NotTried) <=> (a.libheif = Ok)
               /\ (a.jpegBitmap = NotTried) <=> (Failed(a.libheif) /\ Failed(a.heic2any))
               /\ (a.native = NotTried) <=> (a.jpegBitmap = Ok)
               /\ (a.dataUrl = NotTried) <=> ~Failed(a.native)}

NoAttempts ==
    [direct |-> NotTried, libheif |-> NotTried, heic2any |-> NotTried,
     jpegBitmap |-> NotTried, native |-> NotTried, dataUrl |-> NotTried]

\* The message of the error convertHeicToJpeg throws when both libraries failed,
\* 192, 240-245: errors.join('\n') after the heading.
ConvertHeicErrorParts(a) ==
    <<HEIC_CONVERT_FAILED, "\n", HEIC_METHOD_LIBHEIF>> \o FormatError(a.libheif, WITH_LIBHEIF)
       \o <<"\n", HEIC_METHOD_HEIC2ANY>> \o FormatError(a.heic2any, WITH_HEIC2ANY)

\* errorMessage of loadImage, 275-286: what the first attempt (the conversion and
\* createImageBitmap of its result) threw.
ConversionErrorParts(a) ==
    IF a.jpegBitmap = NotTried
      THEN ConvertHeicErrorParts(a)
      ELSE FormatError(a.jpegBitmap, "")

\* The message of the error loadImage throws for a HEIC image, 394-398.
HeicErrorParts(a) ==
    <<HEIC_LOAD_FAILED, "\n", HEIC_STEP_CONVERSION>> \o ConversionErrorParts(a)
       \o <<"\n", HEIC_STEP_NATIVE>> \o FormatError(a.native, "")
       \o <<"\n", HEIC_STEP_DATA_URL>> \o FormatError(a.dataUrl, "")
       \o <<"\n", HEIC_ADVICE>>

\* loadImage: whether it returns a bitmap, and the parts of its error's message if
\* not.  The catch of 408-419 rethrows the error of a HEIC image and replaces any
\* other by the generic message.
LoadImage(heic, a) ==
    IF ~heic
      THEN [ok |-> a.direct = Ok, parts |-> IF a.direct = Ok THEN <<>> ELSE <<IMAGE_FAILED>>]
      ELSE IF Ok \in {a.jpegBitmap, a.native, a.dataUrl}
             THEN [ok |-> TRUE, parts |-> <<>>]
             ELSE [ok |-> FALSE, parts |-> HeicErrorParts(a)]

\* The text made of the parts.
RECURSIVE Join(_)
Join(parts) == IF parts = <<>> THEN "" ELSE Head(parts) \o Join(Tail(parts))

InitProcessor ==
    /\ pc = "idle"
    /\ caller = "direct"
    /\ innerStarted = FALSE
    /\ hasCallback = TRUE
    /\ fps = DefaultFps
    /\ frameDurationMs = DefaultFrameDurationMs
    /\ hookFrameCount = 0
    /\ hostSupported \in BOOLEAN
    /\ isSupported = hostSupported
    /\ isProcessing = FALSE
    /\ error = NoError
    /\ wrapperError = NoError
    /\ progressLog = <<>>
    /\ decoderState = "none"
    /\ encoderState = "none"
    /\ decoderErrorFired = FALSE
    /\ encoderErrorFired = FALSE
    /\ decodeFed = FALSE
    /\ decodedFrames = <<>>
    /\ i = 0
    /\ j = 1
    /\ submitted = <<>>
    /\ closeCount = <<>>
    /\ pending = 0
    /\ encodedChunks = 0
    /\ milestones = {}
    /\ thrown = NoError
    /\ result = NoBlob
    /\ avcRejection = AvcPending
    /\ imageFailures = NoAttempts
    /\ imageErrorParts = <<>>
    /\ supportChecks = 0
    /\ polls = 0
    /\ audioPc = "idle"
    /\ audioOutcome = "none"

\* No call of extractAvcDescriptionFromMp4 of its own.
NoFile == [buffer |-> "ArrayBuffer", parse |-> "none", tracks |-> <<>>]
Pending == [state |-> "pending", buffer |-> 0, reason |-> NoError]
AvcIdle == avcFile = NoFile /\ avcPc = "idle" /\ avcPromise = Pending

NoCalls == [c \in 1..MaxCalls |-> "idle"]

\* No request.
NoPart == <<"absent">>
NoResponse == [status |-> 0, message |-> NoError]
EndpointIdle ==
    /\ request = [video |-> NoPart, image |-> NoPart, parseFails |-> FALSE]
    /\ endpointPc = "idle"
    /\ response = NoResponse
    /\ processStarted = FALSE
    /\ tempDir = "none"

\* process_video.js: the videos it is run on, and the paths of its outputs.
OUTPUT_FILE_PREFIX == "processed_"
OutputDir == <<"Downloads">>
VideoPaths == {<<"videos", "DM.mov">>, <<"archive", "DM.mov">>, <<"videos", "clip.mp4">>}

\* path.basename and path.join.
Basename(path) == path[Len(path)]
PathJoin(dir, name) == Append(dir, name)

\* path.join(outputDir, `${OUTPUT_FILE_PREFIX}${path.basename(videoPath)}`), 131;
\* a file name is the sequence of the strings it is made of.
OutputVideo(outputDir, videoPath) ==
    PathJoin(outputDir, <<OUTPUT_FILE_PREFIX, Basename(videoPath)>>)

OutputPaths == {OutputVideo(OutputDir, v) : v \in VideoPaths}
CliIdle == cliFiles = [f \in OutputPaths |-> 0] /\ cliRuns = <<>>

\* The steps of loadImage that can fail, and a call of loadImage of its own.
ImageSteps == {"direct", "libheif", "heic2any", "jpegBitmap", "native", "dataUrl"}
ImageIdle ==
    /\ imageHost = [heic |-> FALSE, works |-> [st \in ImageSteps |-> TRUE]]
    /\ imagePc = "idle"
    /\ imageTried = <<>>

\* No call of createImageCanvas of its own.
NoCanvas == [state |-> "none", width |-> 0, height |-> 0, ops |-> <<>>]
CanvasIdle ==
    /\ canvasInput = [imgWidth |-> 1, imgHeight |-> 1, width |-> 1, height |-> 1,
                      loads |-> TRUE, hasContext |-> TRUE]
    /\ canvas = NoCanvas

SideIdle == AvcIdle /\ calls = NoCalls /\ EndpointIdle /\ CliIdle /\ ImageIdle /\ CanvasIdle

Init == InitProcessor /\ SideIdle

\* ------------------------------------------- the catch block, 866-872

\* isProcessing.value = false; error.value = errorMessage;
\* updateProgress(0, MESSAGES.ERROR_PROCESSING + errorMessage); throw err.
\* The wrapper's catch (useVideoProcessor 85-89) runs in the microtask that follows.
Catch(cb, who, msg, log) ==
    /\ pc' = "rejected"
    /\ thrown' = msg
    /\ result' = NoBlob
    /\ isProcessing' = FALSE
    /\ error' = msg
    /\ progressLog' = UpdateProgress(cb, log, ErrorProgress, ERROR_PROCESSING \o msg)
    /\ wrapperError' = IF who = "wrapper" THEN msg ELSE wrapperError

\* checkSupport(), 66-72: whether the window has the three WebCodecs classes.
CheckSupport_Assumed(host) == TRUE
CheckSupport(host) == host

\* The entry of processVideo up to its first await, 636-679, given the progress
\* calls made before it.
Enter(log, isMov) ==
    /\ innerStarted' = TRUE
    /\ isSupported' = hostSupported
    /\ supportChecks' = supportChecks + 1
    /\ hookFrameCount' = HookFrameCount(frameDurationMs', fps')
    /\ LET log5 == UpdateProgress(hasCallback', log, 5, CHECKING_SUPPORT)
       IN  IF ~CheckSupport(hostSupported)
             THEN Catch(hasCallback', caller', NOT_SUPPORTED, log5)
             ELSE /\ isProcessing' = TRUE
                  /\ error' = NoError
                  /\ UNCHANGED <<wrapperError, thrown, result>>
                  /\ IF isMov
                       THEN /\ pc' = "convertMov"
                            /\ progressLog' = UpdateProgress(hasCallback', log5, 3, MOV_CONVERTING)
                       ELSE /\ pc' = "createImageCanvas"
                            /\ progressLog' = UpdateProgress(hasCallback', log5, 10, PREPARING_HOOK)

\* processVideo(videoFile, imageFile, progressCallback, options) of
\* useWebCodecsProcessor, called directly.
StartDirect ==
    /\ pc = "idle"
    /\ caller' = "direct"
    /\ \E cb \in BOOLEAN, f \in FpsValues, ms \in FrameDurationsMs, isMov \in BOOLEAN :
          /\ hasCallback' = cb
          /\ fps' = f
          /\ frameDurationMs' = ms
          /\ Enter(progressLog, isMov)
    /\ UNCHANGED <<hostSupported, codecs, frames, milestones>>
    /\ UNCHANGED <<avcRejection, imageFailures, imageErrorParts, polls, audio>>
    /\ UNCHANGED side

\* processVideo of useVideoProcessor, 41-90: the support flag, then the inner
\* processVideo with width 720, height 1280, frameDuration 1, fps 30.
StartWrapper ==
    /\ pc = "idle"
    /\ caller' = "wrapper"
    /\ \E cb \in BOOLEAN, isMov \in BOOLEAN :
          /\ hasCallback' = cb
          /\ fps' = DefaultFps
          /\ frameDurationMs' = DefaultFrameDurationMs
          /\ IF ~isSupported
               THEN /\ progressLog' = UpdateProgress(cb, progressLog, 0, NOT_SUPPORTED)
                    /\ wrapperError' = NOT_SUPPORTED
                    /\ thrown' = NOT_SUPPORTED
                    /\ pc' = "rejected"
                    /\ UNCHANGED <<innerStarted, hookFrameCount, isSupported, isProcessing,
                                   error, result, supportChecks>>
               ELSE Enter(UpdateProgress(cb, progressLog, 5, WEBCODECS_PROCESSING), isMov)
    /\ UNCHANGED <<hostSupported, codecs, frames, milestones>>
    /\ UNCHANGED <<avcRejection, imageFailures, imageErrorParts, polls, audio>>
    /\ UNCHANGED side

\* await convertMovToMp4(videoFile), 668-679.
ConvertMovDone ==
    /\ pc = "convertMov"
    /\ \E ok \in BOOLEAN :
          IF ok
            THEN /\ pc' = "createImageCanvas"
                 /\ progressLog' = UpdateProgress(hasCallback,
                                      UpdateProgress(hasCallback, progressLog, 5, MOV_CONVERTED),
                                      10, PREPARING_HOOK)
                 /\ UNCHANGED <<isProcessing, error, wrapperError, thrown, result>>
            ELSE Catch(hasCallback, caller, MOV_FAILED, progressLog)
    /\ UNCHANGED <<input, isSupported, codecs, frames, milestones>>
    /\ UNCHANGED media
    /\ UNCHANGED side

\* await createImageCanvas(...), then new VideoDecoder, new VideoEncoder and
\* videoEncoder.configure(encoderConfig), 679-727.
CreateImageCanvasDone ==
    /\ pc = "createImageCanvas"
    /\ \E heic \in BOOLEAN :
       \E a \in ImageAttempts(heic), outcome \in {"ok", "noContext", "configureThrows"} :
          LET img == LoadImage(heic, a)
          IN  CASE ~img.ok ->
                     /\ Catch(hasCallback, caller, Join(img.parts), progressLog)
                     /\ imageFailures' = a
                     /\ imageErrorParts' = img.parts
                     /\ UNCHANGED <<decoderState, encoderState>>
                [] img.ok /\ outcome = "noContext" ->
                     /\ Catch(hasCallback, caller, CANVAS_CONTEXT_FAILED, progressLog)
                     /\ UNCHANGED <<decoderState, encoderState, imageFailures, imageErrorParts>>
                [] img.ok /\ outcome = "ok" ->
                     /\ pc' = "loadMetadata"
                     /\ progressLog' = UpdateProgress(hasCallback, progressLog, 15, DECODING_VIDEO)
                     /\ decoderState' = "unconfigured"
                     /\ encoderState' = "configured"
                     /\ UNCHANGED <<isProcessing, error, wrapperError, thrown, result,
                                    imageFailures, imageErrorParts>>
                [] img.ok /\ outcome = "configureThrows" ->
                     /\ Catch(hasCallback, caller, ENCODER_CONFIG_FAILED,
                              UpdateProgress(hasCallback, progressLog, 15, DECODING_VIDEO))
                     /\ decoderState' = "unconfigured"
                     /\ encoderState' = "unconfigured"
                     /\ UNCHANGED <<imageFailures, imageErrorParts>>
    /\ UNCHANGED <<input, isSupported, decoderErrorFired, encoderErrorFired, decodeFed,
                   pending, encodedChunks, frames, milestones, avcRejection, supportChecks, polls, audio>>
    /\ UNCHANGED side

\* The video element's loadedmetadata or error event, 723-734.
MetadataDone ==
    /\ pc = "loadMetadata"
    /\ \E ok \in BOOLEAN :
          IF ok
            THEN /\ pc' = "extractAvc"
                 /\ UNCHANGED <<isProcessing, error, wrapperError, thrown, result, progressLog>>
            ELSE Catch(hasCallback, caller, METADATA_FAILED, progressLog)
    /\ UNCHANGED <<input, isSupported, codecs, frames, milestones>>
    /\ UNCHANGED media
    /\ UNCHANGED side

\* await extractAvcDescriptionFromMp4(videoToProcess).catch(() => undefined), then
\* videoDecoder.configure(decoderConfig), 734-747.  A rejection is replaced by
\* undefined and the decoder is configured without a description.
ExtractAvcDone ==
    /\ pc = "extractAvc"
    /\ \E rej \in {AvcResolved, AVC_NOT_FOUND}, ok \in BOOLEAN :
          /\ avcRejection' = rej
          /\ UNCHANGED <<imageFailures, imageErrorParts, supportChecks, polls, audio>>
          /\ IF ok
               THEN /\ pc' = "readVideo"
                    /\ decoderState' = "configured"
                    /\ UNCHANGED <<isProcessing, error, wrapperError, thrown, result, progressLog>>
               ELSE /\ Catch(hasCallback, caller, DECODER_CONFIG_FAILED, progressLog)
                    /\ UNCHANGED decoderState
    /\ UNCHANGED <<input, isSupported, encoderState, decoderErrorFired, encoderErrorFired,
                   decodeFed, pending, encodedChunks, frames, milestones>>
    /\ UNCHANGED side

\* await videoToProcess.arrayBuffer(), then videoDecoder.decode(chunk), 747-773.
ReadVideoDone ==
    /\ pc = "readVideo"
    /\ \E outcome \in {"ok", "readFails", "decodeThrows"} :
          CASE outcome = "ok" ->
                 /\ pc' = "decodeWait"
                 /\ decodeFed' = TRUE
                 /\ UNCHANGED <<isProcessing, error, wrapperError, thrown, result, progressLog>>
            [] outcome = "readFails" ->
                 /\ Catch(hasCallback, caller, READ_FAILED, progressLog)
                 /\ UNCHANGED decodeFed
            [] outcome = "decodeThrows" ->
                 /\ Catch(hasCallback, caller, DECODE_CALL_FAILED, progressLog)
                 /\ UNCHANGED decodeFed
    /\ UNCHANGED <<input, isSupported, decoderState, encoderState, decoderErrorFired,
                   encoderErrorFired, pending, encodedChunks, frames, milestones>>
    /\ UNCHANGED media
    /\ UNCHANGED side

\* checkDecoding, 764-776, run by its timer when the decoder is closed: the wait
\* resolves and updateProgress(40) follows.
CheckDecoding ==
    /\ pc = "decodeWait"
    /\ DecodeComplete(decoderState)
    /\ pc' = "hookLoop"
    /\ polls' = 0
    /\ milestones' = milestones \cup {"decodeWait"}
    /\ progressLog' = UpdateProgress(hasCallback, progressLog, 40, PROCESSING_FRAMES)
    /\ UNCHANGED <<input, isSupported, isProcessing, error, wrapperError, codecs, frames,
                   thrown, result>>
    /\ UNCHANGED <<avcRejection, imageFailures, imageErrorParts, supportChecks, audio>>
    /\ UNCHANGED side

\* checkDecoding, 765-770, run by its timer when the decoder is not closed:
\* setTimeout(checkDecoding, 100) again, whatever the number of polls so far.
PollAgain ==
    /\ pc = "decodeWait"
    /\ ~DecodeComplete(decoderState)
    /\ polls' = IF polls < MaxPolls THEN polls + 1 ELSE polls
    /\ UNCHANGED <<input, refs, codecs, frames, ctl, avcRejection, imageFailures,
                   imageErrorParts, supportChecks, audio>>
    /\ UNCHANGED side

\* One turn of the hook loop, 779-787.
HookLoop ==
    /\ pc = "hookLoop"
    /\ i < hookFrameCount
    /\ \E ok \in BOOLEAN :
          IF ok
            THEN /\ submitted' = Append(submitted, HookFrame(i, fps))
                 /\ closeCount' = Closed(Created(closeCount, {<<"hook", i>>}), HookCloses(i))
                 /\ pending' = pending + 1
                 /\ i' = i + 1
                 /\ UNCHANGED <<pc, isProcessing, error, wrapperError, thrown, result,
                                progressLog>>
            ELSE /\ Catch(hasCallback, caller, ENCODE_CALL_FAILED, progressLog)
                 /\ closeCount' = Created(closeCount, {<<"hook", i>>})
                 /\ UNCHANGED <<submitted, pending, i>>
    /\ UNCHANGED <<input, isSupported, decoderState, encoderState, decoderErrorFired,
                   encoderErrorFired, decodeFed, encodedChunks, decodedFrames, j, milestones>>
    /\ UNCHANGED media
    /\ UNCHANGED side

\* The end of the hook loop: the original loop starts, 790.
HookLoopEnd ==
    /\ pc = "hookLoop"
    /\ i >= hookFrameCount
    /\ pc' = "origLoop"
    /\ milestones' = milestones \cup {"hooks"}
    /\ UNCHANGED <<input, refs, codecs, frames, thrown, result>>
    /\ UNCHANGED media
    /\ UNCHANGED side

\* The original loop up to await createImageBitmap(canvas), 790-802; without a 2d
\* context the frame is skipped and closed, 819-824.
OrigLoop ==
    /\ pc = "origLoop"
    /\ j <= Len(decodedFrames)
    /\ \E ctx \in BOOLEAN :
          IF ctx
            THEN /\ pc' = "awaitBitmap"
                 /\ UNCHANGED <<j, closeCount>>
            ELSE /\ j' = j + 1
                 /\ closeCount' = Closed(closeCount, SkippedCloses(j - 1))
                 /\ UNCHANGED pc
    /\ UNCHANGED <<input, refs, codecs, decodedFrames, i, submitted, milestones, thrown, result>>
    /\ UNCHANGED media
    /\ UNCHANGED side

\* await createImageBitmap(canvas), then new VideoFrame, videoEncoder.encode(newFrame)
\* and the three close calls, 802-825.
BitmapDone ==
    /\ pc = "awaitBitmap"
    /\ \E outcome \in {"ok", "bitmapFails", "encodeThrows"} :
          CASE outcome = "ok" ->
                 /\ submitted' = Append(submitted,
                                        NewFrame(j - 1, decodedFrames[j], hookFrameCount, fps))
                 /\ closeCount' = Closed(Created(closeCount, {<<"bitmap", j - 1>>, <<"new", j - 1>>}),
                                         EncodedCloses(j - 1))
                 /\ pending' = pending + 1
                 /\ j' = j + 1
                 /\ pc' = "origLoop"
                 /\ UNCHANGED <<isProcessing, error, wrapperError, thrown, result, progressLog>>
            [] outcome = "bitmapFails" ->
                 /\ Catch(hasCallback, caller, BITMAP_FAILED, progressLog)
                 /\ UNCHANGED <<submitted, pending, j, closeCount>>
            [] outcome = "encodeThrows" ->
                 /\ Catch(hasCallback, caller, ENCODE_CALL_FAILED, progressLog)
                 /\ closeCount' = Created(closeCount, {<<"bitmap", j - 1>>, <<"new", j - 1>>})
                 /\ UNCHANGED <<submitted, pending, j>>
    /\ UNCHANGED <<input, isSupported, decoderState, encoderState, decoderErrorFired,
                   encoderErrorFired, decodeFed, encodedChunks, decodedFrames, i, milestones>>
    /\ UNCHANGED media
    /\ UNCHANGED side

\* The end of the original loop: updateProgress(70) and videoEncoder.flush(), 827-829.
CallFlush ==
    /\ pc = "origLoop"
    /\ j > Len(decodedFrames)
    /\ pc' = "awaitFlush"
    /\ milestones' = milestones \cup {"submitAll"}
    /\ progressLog' = UpdateProgress(hasCallback, progressLog, 70, ENCODING_VIDEO)
    /\ UNCHANGED <<input, isSupported, isProcessing, error, wrapperError, codecs, frames,
                   thrown, result>>
    /\ UNCHANGED media
    /\ UNCHANGED side

\* The promise of flush settles: resolved once every accepted frame is emitted,
\* then updateProgress(80) and extractAudio(videoToProcess), 829-833.
FlushDone ==
    /\ pc = "awaitFlush"
    /\ \E ok \in BOOLEAN :
          IF ok
            THEN /\ pending = 0
                 /\ pc' = "awaitAudio"
                 /\ audioPc' = "waitMetadata"
                 /\ milestones' = milestones \cup {"flush"}
                 /\ progressLog' = UpdateProgress(hasCallback, progressLog, 80, PREPARING_AUDIO)
                 /\ UNCHANGED <<isProcessing, error, wrapperError, thrown, result>>
            ELSE /\ Catch(hasCallback, caller, FLUSH_FAILED, progressLog)
                 /\ UNCHANGED <<milestones, audioPc>>
    /\ UNCHANGED <<input, isSupported, codecs, frames>>
    /\ UNCHANGED <<avcRejection, imageFailures, imageErrorParts, supportChecks, polls, audioOutcome>>
    /\ UNCHANGED side

\* --------------------------------------------- extractAudio, 466-538

\* How the promise of extractAudio settles when capture fails (the catch of
\* 522-527, the rejection of play, video.onerror): resolve(null).
SettleAudio_Rejects(failed) == IF failed THEN "rejected" ELSE "resolved"
SettleAudio(failed) == "resolved"

\* video.onloadedmetadata, 474-528, up to await video.play(): no audio track,
\* or AudioContext / createMediaElementSource throws, or play() is called.
AudioMetadata ==
    /\ pc = "awaitAudio"
    /\ audioPc = "waitMetadata"
    /\ \E outcome \in {"noAudioTrack", "contextThrew", "play"} :
          CASE outcome = "noAudioTrack" ->
                 /\ audioPc' = SettleAudio(FALSE)
                 /\ audioOutcome' = "noAudioTrack"
            [] outcome = "contextThrew" ->
                 /\ audioPc' = SettleAudio(TRUE)
                 /\ audioOutcome' = "threw"
            [] outcome = "play" ->
                 /\ audioPc' = "waitPlay"
                 /\ UNCHANGED audioOutcome
    /\ UNCHANGED <<input, refs, codecs, frames, ctl, avcRejection, imageFailures,
                   imageErrorParts, supportChecks, polls>>
    /\ UNCHANGED side

\* The promise of video.play() settles, 487-515: rejected, or resolved and then
\* new MediaRecorder / recorder.start() throws, or the recording starts and the
\* timer of 1000 ms is set.
AudioPlaySettled ==
    /\ pc = "awaitAudio"
    /\ audioPc = "waitPlay"
    /\ \E outcome \in {"playRejected", "recorderThrew", "recording"} :
          CASE outcome = "recording" ->
                 /\ audioPc' = "recording"
                 /\ UNCHANGED audioOutcome
            [] OTHER ->
                 /\ audioPc' = SettleAudio(TRUE)
                 /\ audioOutcome' = "threw"
    /\ UNCHANGED <<input, refs, codecs, frames, ctl, avcRejection, imageFailures,
                   imageErrorParts, supportChecks, polls>>
    /\ UNCHANGED side

\* The timer of 512-515 fires: recorder.stop(), and recorder.onstop resolves, 495-508.
AudioTimer ==
    /\ pc = "awaitAudio"
    /\ audioPc = "recording"
    /\ audioPc' = SettleAudio(FALSE)
    /\ audioOutcome' = "recorded"
    /\ UNCHANGED <<input, refs, codecs, frames, ctl, avcRejection, imageFailures,
                   imageErrorParts, supportChecks, polls>>
    /\ UNCHANGED side

\* video.onerror, 530-534.
AudioVideoError ==
    /\ pc = "awaitAudio"
    /\ audioPc \in {"waitMetadata", "waitPlay", "recording"}
    /\ audioPc' = SettleAudio(TRUE)
    /\ audioOutcome' = "videoError"
    /\ UNCHANGED <<input, refs, codecs, frames, ctl, avcRejection, imageFailures,
                   imageErrorParts, supportChecks, polls>>
    /\ UNCHANGED side

\* new Blob(encodedChunks.map(...)), 840-848: one part for each chunk.
BlobOf(chunks) == <<chunks>>

\* await extractAudio(videoToProcess) resumes (its value is always null), then the Blob, the metrics, the two
\* close calls, updateProgress(100) and the return, 833-865.
AudioDone ==
    /\ pc = "awaitAudio"
    /\ audioPc \in {"resolved", "rejected"}
    /\ \E outcome \in {"ok", "decoderCloseThrows", "encoderCloseThrows"} :
          LET log90 == UpdateProgress(hasCallback, progressLog, 90, MUXING_STREAMS)
          IN  CASE audioPc = "rejected" ->
                     /\ Catch(hasCallback, caller, AUDIO_FAILED, progressLog)
                     /\ UNCHANGED <<milestones, decoderState, encoderState, pending>>
                [] audioPc = "resolved" /\ outcome = "ok" ->
                     /\ pc' = "resolved"
                     /\ result' = BlobOf(encodedChunks)
                     /\ decoderState' = "closed"
                     /\ encoderState' = "closed"
                     /\ pending' = 0
                     /\ milestones' = milestones \cup {"audio", "blob", "close"}
                     /\ progressLog' = UpdateProgress(hasCallback, log90, CompleteProgress,
                                                      PROCESSING_COMPLETE)
                     /\ isProcessing' = FALSE
                     /\ UNCHANGED <<error, wrapperError, thrown>>
                [] audioPc = "resolved" /\ outcome = "decoderCloseThrows" ->
                     /\ Catch(hasCallback, caller, DECODER_CLOSE_FAILED, log90)
                     /\ milestones' = milestones \cup {"audio", "blob"}
                     /\ UNCHANGED <<decoderState, encoderState, pending>>
                [] audioPc = "resolved" /\ outcome = "encoderCloseThrows" ->
                     /\ Catch(hasCallback, caller, ENCODER_CLOSE_FAILED, log90)
                     /\ milestones' = milestones \cup {"audio", "blob"}
                     /\ decoderState' = "closed"
                     /\ UNCHANGED <<encoderState, pending>>
    /\ UNCHANGED <<input, isSupported, decoderErrorFired, encoderErrorFired, decodeFed,
                   encodedChunks, frames>>
    /\ UNCHANGED media
    /\ UNCHANGED side

\* ------------------------------------------------ the codecs' callbacks

\* The decoder's output callback, 686-689: decodedFrames.push(videoFrame).
DecoderOutput ==
    /\ Suspended
    /\ decoderState = "configured"
    /\ decodeFed
    /\ Len(decodedFrames) < MaxFrames
    /\ \E t \in FrameTimestamps, hasDur \in BOOLEAN, d \in FrameDurations :
          /\ t >= LastDelivered
          /\ (~hasDur => d = 0)
          /\ decodedFrames' = Append(decodedFrames,
                                     [timestamp |-> t, hasDuration |-> hasDur, duration |-> d])
          /\ closeCount' = Created(closeCount, {<<"decoded", Len(decodedFrames)>>})
    /\ UNCHANGED <<input, refs, codecs, i, j, submitted, ctl>>
    /\ UNCHANGED media
    /\ UNCHANGED side

\* The decoder's error callback, 690-693; the decoder that reports an error is
\* closed.
DecoderError ==
    /\ Suspended
    /\ decoderState = "configured"
    /\ decoderState' = "closed"
    /\ decoderErrorFired' = TRUE
    /\ error' = DECODER_ERROR
    /\ UNCHANGED <<input, isSupported, isProcessing, wrapperError, progressLog, encoderState,
                   encoderErrorFired, decodeFed, pending, encodedChunks, frames, ctl>>
    /\ UNCHANGED media
    /\ UNCHANGED side

\* The encoder's output callback, 699-701: encodedChunks.push(chunk).
EncoderOutput ==
    /\ Suspended
    /\ encoderState = "configured"
    /\ pending > 0
    /\ pending' = pending - 1
    /\ encodedChunks' = encodedChunks + 1
    /\ UNCHANGED <<input, refs, decoderState, encoderState, decoderErrorFired,
                   encoderErrorFired, decodeFed, frames, ctl>>
    /\ UNCHANGED media
    /\ UNCHANGED side

\* The encoder's error callback, 702-705; the encoder that reports an error is
\* closed and its pending work is dropped.
EncoderError ==
    /\ Suspended
    /\ encoderState = "configured"
    /\ encoderState' = "closed"
    /\ encoderErrorFired' = TRUE
    /\ pending' = 0
    /\ error' = ENCODER_ERROR
    /\ UNCHANGED <<input, isSupported, isProcessing, wrapperError, progressLog, decoderState,
                   decoderErrorFired, decodeFed, encodedChunks, frames, ctl>>
    /\ UNCHANGED media
    /\ UNCHANGED side

\* The steps of a run after its entry, and the callbacks of its codecs.
Run ==
    \/ ConvertMovDone
    \/ CreateImageCanvasDone
    \/ MetadataDone
    \/ ExtractAvcDone
    \/ ReadVideoDone
    \/ CheckDecoding
    \/ PollAgain
    \/ HookLoop
    \/ HookLoopEnd
    \/ OrigLoop
    \/ BitmapDone
    \/ CallFlush
    \/ FlushDone
    \/ AudioMetadata
    \/ AudioPlaySettled
    \/ AudioTimer
    \/ AudioVideoError
    \/ AudioDone
    \/ DecoderOutput
    \/ DecoderError
    \/ EncoderOutput
    \/ EncoderError

\* A run of processVideo called with options of its caller's choice.
Next == StartDirect \/ Run

Spec == Init /\ [][Next]_vars

\* A run of processVideo called through useVideoProcessor, with the options the
\* wrapper passes (the defaults: fps 30, frameDuration 1).
NextWrapper == StartWrapper \/ Run

WrapperSpec == Init /\ [][NextWrapper]_vars

\* A run of processVideo called either way.
NextCaller == StartDirect \/ StartWrapper \/ Run

CallerSpec == Init /\ [][NextCaller]_vars

\* A run in which what the program itself schedules does happen: its timers fire
\* (the poll of the decode wait, the timer of the audio recording) and its loops
\* take their next turn.  Nothing is assumed of the events of the host.
LiveSpec ==
    /\ Spec
    /\ WF_vars(CheckDecoding)
    /\ WF_vars(PollAgain)
    /\ WF_vars(AudioTimer)
    /\ WF_vars(HookLoop)
    /\ WF_vars(HookLoopEnd)
    /\ WF_vars(OrigLoop)
    /\ WF_vars(CallFlush)
    /\ WF_vars(AudioDone)

TypeOK ==
    /\ pc \in {"idle", "convertMov", "createImageCanvas", "loadMetadata", "extractAvc",
               "readVideo", "decodeWait", "hookLoop", "origLoop", "awaitBitmap", "awaitFlush",
               "awaitAudio", "resolved", "rejected"}
    /\ decoderState \in {"none", "unconfigured", "configured", "closed"}
    /\ encoderState \in {"none", "unconfigured", "configured", "closed"}
    /\ Len(decodedFrames) <= MaxFrames
    /\ pending >= 0
    /\ i \in 0..hookFrameCount
    /\ polls \in 0..MaxPolls

\* ------------------------------- extractAvcDescriptionFromMp4, 541-592

\* The messages of its rejections.
AVC_READ_EMPTY == "Impossible de lire le fichier MP4"
AVC_BUFFER_INVALID == "Le buffer n'est pas un ArrayBuffer valide"
AVC_READER_ERROR == "Erreur de lecture du fichier MP4"
MP4BOX_ERROR == "mp4box error"

\* A codec string is the sequence of its characters.
AVC1 == <<"a", "v", "c", "1">>
Codecs ==
    { <<"a", "v", "c", "1", ".", "6", "4", "0", "0", "1", "f">>,
      <<"a", "v", "c", "1">>,
      <<"a", "v", "c">>,
      <<"h", "v", "c", "1", ".", "1">>,
      <<"m", "p", "4", "a", ".", "4", "0", ".", "2">> }

\* The avcC of a track of info.tracks: missing, or a box with its buffer.
NoAvcC == [present |-> FALSE, buffer |-> 0]
AvcCs == {NoAvcC, [present |-> TRUE, buffer |-> 1], [present |-> TRUE, buffer |-> 2]}

Tracks == [codec : Codecs, avcC : AvcCs]
TrackLists == UNION {[1..n -> Tracks] : n \in 0..MaxTracks}

\* What e.target.result is, and what MP4Box does with the buffer: call onReady,
\* call onError, or call neither (it found no complete moov box).
BufferKinds == {"null", "ArrayBuffer", "SharedArrayBuffer", "view", "other"}
ParseOutcomes == {"ready", "error", "none"}

Mp4Files ==
    {f \in [buffer : BufferKinds, parse : ParseOutcomes, tracks : TrackLists] :
        f.parse # "ready" => f.tracks = <<>>}

\* String.prototype.startsWith.
StartsWith(str, prefix) ==
    /\ Len(str) >= Len(prefix)
    /\ SubSeq(str, 1, Len(prefix)) = prefix

\* info.tracks.find(t => t.codec.startsWith('avc1')), 577: the index of the first
\* track the test accepts, 0 for undefined.
RECURSIVE FindFrom(_, _)
FindFrom(tracks, k) ==
    IF k > Len(tracks) THEN 0
    ELSE IF StartsWith(tracks[k].codec, AVC1) THEN k
    ELSE FindFrom(tracks, k + 1)

RECURSIVE FindWithRecordFrom(_, _)
FindWithRecordFrom(tracks, k) ==
    IF k > Len(tracks) THEN 0
    ELSE IF StartsWith(tracks[k].codec, AVC1) /\ tracks[k].avcC.present THEN k
    ELSE FindWithRecordFrom(tracks, k + 1)

FindVideoTrack_FallThrough(tracks) == FindWithRecordFrom(tracks, 1)
FindVideoTrack(tracks) == FindFrom(tracks, 1)

Resolved(b) == [state |-> "resolved", buffer |-> b, reason |-> NoError]
Rejected(msg) == [state |-> "rejected", buffer |-> 0, reason |-> msg]

\* resolve and reject of a promise: the first settlement stays.
Settle(promise, outcome) == IF promise.state = "pending" THEN outcome ELSE promise

\* mp4boxFile.onReady, 575-583.
OnReady(tracks) ==
    LET videoTrack == FindVideoTrack(tracks)
    IN  IF videoTrack = 0 \/ ~tracks[videoTrack].avcC.present
          THEN Rejected(AVC_NOT_FOUND)
          ELSE Resolved(tracks[videoTrack].avcC.buffer)

\* extractAvcDescriptionFromMp4(file), 541-543 and 589-590: the promise is made
\* and the read of the file is started.
ExtractAvcCall ==
    /\ avcPc = "idle"
    /\ avcPc' = "reading"
    /\ UNCHANGED <<avcFile, avcPromise>>
    /\ UNCHANGED <<processor, callVars, endpointVars, cliVars, imageVars, canvasVars>>

\* fileReader.onload, 544-588; appendBuffer and flush call onReady or onError
\* before they return, when MP4Box calls them at all.
ReaderOnLoad ==
    /\ avcPc = "reading"
    /\ avcPc' = "loaded"
    /\ avcPromise' =
          IF avcFile.buffer = "null" THEN Settle(avcPromise, Rejected(AVC_READ_EMPTY))
          ELSE IF avcFile.buffer = "other"
            THEN Settle(avcPromise, Rejected(AVC_BUFFER_INVALID))
          ELSE IF avcFile.parse = "error" THEN Settle(avcPromise, Rejected(MP4BOX_ERROR))
          ELSE IF avcFile.parse = "ready" THEN Settle(avcPromise, OnReady(avcFile.tracks))
          ELSE avcPromise
    /\ UNCHANGED avcFile
    /\ UNCHANGED <<processor, callVars, endpointVars, cliVars, imageVars, canvasVars>>

\* fileReader.onerror, 589.
ReaderOnError ==
    /\ avcPc = "reading"
    /\ avcPc' = "failed"
    /\ avcPromise' = Settle(avcPromise, Rejected(AVC_READER_ERROR))
    /\ UNCHANGED avcFile
    /\ UNCHANGED <<processor, callVars, endpointVars, cliVars, imageVars, canvasVars>>

\* A call of extractAvcDescriptionFromMp4 with a file of the host's choice.
InitAvc ==
    /\ InitProcessor
    /\ hostSupported
    /\ avcFile \in Mp4Files
    /\ avcPc = "idle"
    /\ avcPromise = Pending
    /\ calls = NoCalls
    /\ EndpointIdle
    /\ CliIdle
    /\ ImageIdle
    /\ CanvasIdle

NextAvc == ExtractAvcCall \/ ReaderOnLoad \/ ReaderOnError

AvcSpec == InitAvc /\ [][NextAvc]_vars

\* The FileReader ends every read with a load or an error event.
AvcLiveSpec ==
    /\ AvcSpec
    /\ WF_vars(ExtractAvcCall)
    /\ WF_vars(ReaderOnLoad \/ ReaderOnError)

\* ------------------- several calls of processVideo on one instance

\* What a call that fails after its first await throws.
CallErrors == {IMAGE_FAILED, METADATA_FAILED}

\* processVideo up to its first await, 636-679 (no progressCallback is passed):
\* isProcessing.value = true, error.value = null, then the support check, whose
\* failure is caught before the call returns.
CallEnter(c) ==
    /\ calls[c] = "idle"
    /\ isSupported' = hostSupported
    /\ IF CheckSupport(hostSupported)
         THEN /\ calls' = [calls EXCEPT ![c] = "running"]
              /\ isProcessing' = TRUE
              /\ error' = NoError
         ELSE /\ calls' = [calls EXCEPT ![c] = "rejected"]
              /\ isProcessing' = FALSE
              /\ error' = NOT_SUPPORTED
    /\ UNCHANGED <<input, wrapperError, progressLog, codecs, frames, ctl, media, avcVars,
                   endpointVars, cliVars, imageVars, canvasVars>>

\* The end of the try block, 862-865: isProcessing.value = false; return the Blob.
CallResolve(c) ==
    /\ calls[c] = "running"
    /\ calls' = [calls EXCEPT ![c] = "resolved"]
    /\ isProcessing' = FALSE
    /\ UNCHANGED <<input, isSupported, error, wrapperError, progressLog, codecs, frames, ctl,
                   media, avcVars, endpointVars, cliVars, imageVars, canvasVars>>

\* The catch block, 866-872: error.value = message; isProcessing.value = false.
CallReject(c) ==
    /\ calls[c] = "running"
    /\ calls' = [calls EXCEPT ![c] = "rejected"]
    /\ isProcessing' = FALSE
    /\ \E msg \in CallErrors : error' = msg
    /\ UNCHANGED <<input, isSupported, wrapperError, progressLog, codecs, frames, ctl, media,
                   avcVars, endpointVars, cliVars, imageVars, canvasVars>>

NextCalls == \E c \in 1..MaxCalls : CallEnter(c) \/ CallResolve(c) \/ CallReject(c)

\* Up to MaxCalls calls of processVideo on one instance, each made at any time.
CallsSpec == Init /\ [][NextCalls]_vars

\* --------------- the upload endpoint, server/api/process-video.post.ts

BOTH_REQUIRED == "Both video and image files are required"
PARSE_FAILED == "maxFileSize exceeded"

\* What processVideo of utils/videoProcessor rejects with.
ProcessErrors ==
    {"Le traitement ffmpeg a echoue", "Le fichier de sortie n'a pas ete cree",
     "Echec de la conversion HEIC en JPEG"}

\* The part of a field of the form: absent, or <<type, subtype>> of its mimetype,
\* <<"none">> for a part without mimetype.
Parts ==
    {NoPart, <<"none">>, <<"video", "mp4">>, <<"video", "quicktime">>, <<"image", "png">>,
     <<"image", "heic">>, <<"text", "plain">>}

\* The filter of formidable, 19-25: a part is kept when its mimetype includes
\* 'image' or 'video'.
Kept(part) ==
    /\ part # NoPart
    /\ part # <<"none">>
    /\ \E k \in DOMAIN part : part[k] \in {"image", "video"}

Requests ==
    {r \in [video : Parts, image : Parts, parseFails : BOOLEAN] :
        r.parseFails => (r.video = NoPart /\ r.image = NoPart)}

\* createError({statusCode, statusMessage}) thrown out of the handler.
CreateError(code, msg) == [status |-> code, message |-> msg]

\* The catch block of the handler, 71-78: whatever was thrown inside the try
\* block is answered with status 500 and the message of the error.
CatchAll(err) == CreateError(500, err.message)

\* The handler up to its first await, 8-37.
HandleRequest ==
    /\ endpointPc = "received"
    /\ endpointPc' = "parsing"
    /\ tempDir' = "created"
    /\ UNCHANGED <<request, response, processStarted>>
    /\ UNCHANGED <<processor, avcVars, callVars, cliVars, imageVars, canvasVars>>

\* form.parse has called back, 29-56: the test of the two files, then the call
\* of processVideo.
ParseDone ==
    /\ endpointPc = "parsing"
    /\ IF request.parseFails
         THEN /\ response' = CatchAll([message |-> PARSE_FAILED])
              /\ endpointPc' = "responded"
              /\ UNCHANGED <<processStarted, tempDir>>
         ELSE IF ~Kept(request.video) \/ ~Kept(request.image)
           THEN /\ tempDir' = "removed"
                /\ response' = CatchAll(CreateError(400, BOTH_REQUIRED))
                /\ endpointPc' = "responded"
                /\ UNCHANGED processStarted
           ELSE /\ processStarted' = TRUE
                /\ endpointPc' = "processing"
                /\ UNCHANGED <<response, tempDir>>
    /\ UNCHANGED request
    /\ UNCHANGED <<processor, avcVars, callVars, cliVars, imageVars, canvasVars>>

\* await processVideo(videoPath, imagePath, tempDir) has settled, 56-70.
ProcessDone ==
    /\ endpointPc = "processing"
    /\ \/ /\ response' = CreateError(200, NoError)
          /\ endpointPc' = "streaming"
       \/ \E msg \in ProcessErrors :
             /\ response' = CatchAll([message |-> msg])
             /\ endpointPc' = "responded"
    /\ UNCHANGED <<request, processStarted, tempDir>>
    /\ UNCHANGED <<processor, avcVars, callVars, cliVars, imageVars, canvasVars>>

\* The 'close' event of the file stream, 66-68.
StreamClose ==
    /\ endpointPc = "streaming"
    /\ endpointPc' = "responded"
    /\ tempDir' = "removed"
    /\ UNCHANGED <<request, response, processStarted>>
    /\ UNCHANGED <<processor, avcVars, callVars, cliVars, imageVars, canvasVars>>

\* One request to the endpoint, with the parts of the client's choice.
InitEndpoint ==
    /\ InitProcessor
    /\ hostSupported
    /\ AvcIdle
    /\ calls = NoCalls
    /\ request \in Requests
    /\ endpointPc = "received"
    /\ response = NoResponse
    /\ processStarted = FALSE
    /\ tempDir = "none"
    /\ CliIdle
    /\ ImageIdle
    /\ CanvasIdle

NextEndpoint == HandleRequest \/ ParseDone \/ ProcessDone \/ StreamClose

EndpointSpec == InitEndpoint /\ [][NextEndpoint]_vars

\* --------------------------- the command-line script, process_video.js

\* What a run finds: whether its two input files exist, whether the image is a
\* .heic file, and whether sips, ImageMagick and ffmpeg do their work when they
\* are run on it (ffmpeg: given an output path that is free).
CliEnvs ==
    {e \in [videoExists : BOOLEAN, imageExists : BOOLEAN, isHeic : BOOLEAN,
            sipsWorks : BOOLEAN, magickWorks : BOOLEAN, ffmpegWorks : BOOLEAN] :
        /\ ~e.videoExists => e.imageExists
        /\ ~(e.videoExists /\ e.imageExists) => ~e.isHeic
        /\ ~e.isHeic => e.sipsWorks
        /\ e.sipsWorks => e.magickWorks
        /\ ~(e.videoExists /\ e.imageExists /\ e.magickWorks) => e.ffmpegWorks}

\* execSync(ffmpegCommand, {stdio: 'pipe'}), 133-144.  The command has no -y:
\* ffmpeg asks before it overwrites a file, reads the end of its input for an
\* answer, and exits with an error, leaving the file as it was.
FfmpegSucceeds(files, outputVideo, e) == files[outputVideo] = 0 /\ e.ffmpegWorks

Settled(files, outcome, msg, output) ==
    [files |-> files, outcome |-> outcome, message |-> msg, output |-> output]

\* processVideo(videoPath, imagePath, outputDir), 77-162, as run number n.
CliProcessVideo(files, n, videoPath, e) ==
    LET outputVideo == OutputVideo(OutputDir, videoPath)
    IN  IF ~e.videoExists THEN Settled(files, "rejected", "VIDEO_NOT_FOUND", <<>>)
        ELSE IF ~e.imageExists THEN Settled(files, "rejected", "IMAGE_NOT_FOUND", <<>>)
        ELSE IF e.isHeic /\ ~e.sipsWorks /\ ~e.magickWorks
          THEN Settled(files, "rejected", "HEIC_CONVERSION_FAILED", <<>>)
        ELSE IF ~FfmpegSucceeds(files, outputVideo, e)
          THEN Settled(files, "rejected", "FFMPEG_FAILED", <<>>)
        ELSE LET written == [files EXCEPT ![outputVideo] = n]
             IN  IF written[outputVideo] # 0
                   THEN Settled(written, "resolved", NoError, outputVideo)
                   ELSE Settled(written, "rejected", "OUTPUT_NOT_CREATED", <<>>)

\* One run of the script: main, 213-276, calls processVideo and prints its result.
CliRun ==
    /\ Len(cliRuns) < MaxRuns
    /\ \E videoPath \in VideoPaths, e \in CliEnvs :
          LET n == Len(cliRuns) + 1
              run == CliProcessVideo(cliFiles, n, videoPath, e)
          IN  /\ cliFiles' = run.files
              /\ cliRuns' = Append(cliRuns,
                                   [videoPath |-> videoPath, env |-> e, before |-> cliFiles,
                                    after |-> run.files, outcome |-> run.outcome,
                                    message |-> run.message, output |-> run.output])
    /\ UNCHANGED <<processor, avcVars, callVars, endpointVars, imageVars, canvasVars>>

InitCli ==
    /\ InitProcessor
    /\ hostSupported
    /\ AvcIdle
    /\ calls = NoCalls
    /\ EndpointIdle
    /\ CliIdle
    /\ ImageIdle
    /\ CanvasIdle

NextCli == CliRun

\* Up to MaxRuns runs of the script, one after the other.
CliSpec == InitCli /\ [][NextCli]_vars

\* ------------------------- loadImage step by step, 91-248 and 255-420

\* The files loadImage is called with; for an image that is not HEIC only the
\* direct decode matters.
ImageHosts ==
    {h \in [heic : BOOLEAN, works : [ImageSteps -> BOOLEAN]] :
        IF h.heic THEN h.works["direct"]
        ELSE \A st \in ImageSteps \ {"direct"} : h.works[st]}

\* One step of loadImage: the step is attempted; the call goes on to `then` when
\* the host lets it succeed and to `else` when it throws.
ImageStep(st, then, else) ==
    /\ imagePc = st
    /\ imageTried' = Append(imageTried, st)
    /\ imagePc' = IF imageHost.works[st] THEN then ELSE else
    /\ UNCHANGED imageHost
    /\ UNCHANGED <<processor, avcVars, callVars, endpointVars, cliVars, canvasVars>>

\* loadImage(file) up to its first await, 255-265 and 402-404.
LoadImageCall ==
    /\ imagePc = "idle"
    /\ imagePc' = IF imageHost.heic THEN "libheif" ELSE "direct"
    /\ UNCHANGED <<imageHost, imageTried>>
    /\ UNCHANGED <<processor, avcVars, callVars, endpointVars, cliVars, canvasVars>>

\* convertHeicToJpeg: the libheif-js attempt, 99-175, and in its catch the
\* heic2any attempt, 195-223, whose failure makes convertHeicToJpeg throw (243).
TryLibheif == ImageStep("libheif", "jpegBitmap", "heic2any")
TryHeic2any == ImageStep("heic2any", "jpegBitmap", "native")

\* createImageBitmap(jpegFile), 268-270; its failure is caught at 271 like the
\* failure of the conversion.
TryJpegBitmap == ImageStep("jpegBitmap", "bitmap", "native")

\* createImageBitmap(file) on the HEIC file, 289-294.
TryNative == ImageStep("native", "bitmap", "dataUrl")

\* The data URL round trip, 313-376; its failure throws the error of 394-398.
TryDataUrl == ImageStep("dataUrl", "bitmap", "rejected")

\* createImageBitmap(file) on any other image, 404-406, and the catch of 408-419.
TryDirect == ImageStep("direct", "bitmap", "rejected")

InitImage ==
    /\ InitProcessor
    /\ hostSupported
    /\ AvcIdle
    /\ calls = NoCalls
    /\ EndpointIdle
    /\ CliIdle
    /\ imageHost \in ImageHosts
    /\ imagePc = "idle"
    /\ imageTried = <<>>
    /\ CanvasIdle

NextImage ==
    \/ LoadImageCall
    \/ TryLibheif
    \/ TryHeic2any
    \/ TryJpegBitmap
    \/ TryNative
    \/ TryDataUrl
    \/ TryDirect

\* One call of loadImage.
ImageSpec == InitImage /\ [][NextImage]_vars

\* ------------------------------------------ createImageCanvas, 429-459

\* A Number is the fraction <<n, d>>, d > 0.
RECURSIVE Pow2(_)
Pow2(k) == IF k = 0 THEN 1 ELSE 2 * Pow2(k - 1)

Num(k) == <<k, 1>>
Less(a, b) == a[1] * b[2] < b[1] * a[2]
Same(a, b) == a[1] * b[2] = b[1] * a[2]

\* n / d rounded to the nearest integer, ties to the even one (n >= 0).
RoundHalfEven(n, d) ==
    LET q == n \div d
        r == n % d
    IN  IF 2 * r > d \/ (2 * r = d /\ q % 2 = 1) THEN q + 1 ELSE q

Twice(a) == IF a[2] % 2 = 0 THEN <<a[1], a[2] \div 2>> ELSE <<2 * a[1], a[2]>>
Half(a) == IF a[1] % 2 = 0 THEN <<a[1] \div 2, a[2]>> ELSE <<a[1], 2 * a[2]>>

\* The Number nearest to n / d: the significand is brought to MantissaBits bits
\* and rounded.
RECURSIVE Fl(_, _)
Fl(n, d) ==
    IF n = 0 THEN <<0, 1>>
    ELSE IF n < 0 THEN LET a == Fl(-n, d) IN <<-a[1], a[2]>>
    ELSE IF n >= Pow2(MantissaBits) * d THEN Twice(Fl(n, 2 * d))
    ELSE IF n < Pow2(MantissaBits - 1) * d THEN Half(Fl(2 * n, d))
    ELSE <<RoundHalfEven(n, d), 1>>

\* The operators /, * and - of the program, and Math.min.
Divide(a, b) == Fl(a[1] * b[2], a[2] * b[1])
Times(a, b) == Fl(a[1] * b[1], a[2] * b[2])
Minus(a, b) == Fl(a[1] * b[2] - b[1] * a[2], a[2] * b[2])
MathMin(a, b) == IF Less(b, a) THEN b ELSE a
MathMax(a, b) == IF Less(a, b) THEN b ELSE a

\* scale, 448.
Scale_Max(width, height, img) ==
    MathMax(Divide(Num(width), Num(img.width)), Divide(Num(height), Num(img.height)))
Scale(width, height, img) ==
    MathMin(Divide(Num(width), Num(img.width)), Divide(Num(height), Num(img.height)))

\* ctx.drawImage(img, x, y, img.width * scale, img.height * scale), 449-453.
DrawImage(width, height, img) ==
    LET scale == Scale(width, height, img)
    IN  [op |-> "drawImage",
         x |-> Divide(Minus(Num(width), Times(Num(img.width), scale)), Num(2)),
         y |-> Divide(Minus(Num(height), Times(Num(img.height), scale)), Num(2)),
         w |-> Times(Num(img.width), scale),
         h |-> Times(Num(img.height), scale)]

\* ctx.fillRect(0, 0, width, height) with fillStyle 'black', 444-445.
FillRect(width, height) ==
    [op |-> "fillRect", x |-> Num(0), y |-> Num(0), w |-> Num(width), h |-> Num(height)]

CanvasInputs ==
    {c \in [imgWidth : 1..MaxSide, imgHeight : 1..MaxSide, width : 1..MaxSide,
            height : 1..MaxSide, loads : BOOLEAN, hasContext : BOOLEAN] :
        ~c.loads => c.hasContext}

\* createImageCanvas(imageFile, width, height), 429-459.
CreateImageCanvas ==
    /\ canvas.state = "none"
    /\ LET c == canvasInput
           img == [width |-> c.imgWidth, height |-> c.imgHeight]
       IN  canvas' =
             IF ~c.loads THEN [NoCanvas EXCEPT !.state = "rejected"]
             ELSE IF ~c.hasContext
               THEN [state |-> "rejected", width |-> c.width, height |-> c.height,
                     ops |-> <<>>]
             ELSE [state |-> "returned", width |-> c.width, height |-> c.height,
                   ops |-> <<FillRect(c.width, c.height),
                             DrawImage(c.width, c.height, img)>>]
    /\ UNCHANGED canvasInput
    /\ UNCHANGED <<processor, avcVars, callVars, endpointVars, cliVars, imageVars>>

InitCanvas ==
    /\ InitProcessor
    /\ hostSupported
    /\ AvcIdle
    /\ calls = NoCalls
    /\ EndpointIdle
    /\ CliIdle
    /\ ImageIdle
    /\ canvasInput \in CanvasInputs
    /\ canvas = NoCanvas

NextCanvas == CreateImageCanvas

\* One call of createImageCanvas with an image and a target size of any sides.
CanvasSpec == InitCanvas /\ [][NextCanvas]_vars

\* ------------------------------------------------------------ claims

HookFrames == {k \in DOMAIN submitted : submitted[k].kind = "hook"}
OrigFrames == {k \in DOMAIN submitted : submitted[k].kind = "orig"}
\* The decoded frame a submitted original frame was made from.
SourceOf(k) == decodedFrames[submitted[k].index + 1]
Last(seq) == seq[Len(seq)]
AllMilestones == {"decodeWait", "hooks", "submitAll", "flush", "audio", "blob", "close"}

\* C1: every original frame is submitted with the timestamp T + hookFrameCount *
\* (1000000 / fps), T the decoded frame's timestamp (the value passed is that
\* fraction, the frame carries its integer part), and for any two original frames
\* the difference of the submitted timestamps is the difference of the original ones.
C1_ShiftedTimestamps ==
    /\ \A k \in OrigFrames :
          /\ submitted[k].tsDen = fps
          /\ submitted[k].tsNum = SourceOf(k).timestamp * fps + hookFrameCount * MicrosPerSecond
          /\ submitted[k].timestamp * fps <= submitted[k].tsNum
          /\ submitted[k].tsNum < (submitted[k].timestamp + 1) * fps
    /\ \A a, b \in OrigFrames :
          submitted[a].timestamp - submitted[b].timestamp
             = SourceOf(a).timestamp - SourceOf(b).timestamp

\* Two original frames with different timestamps were submitted after a hook whose
\* length is no whole number of microseconds.
C1_Witness ==
    /\ \E a, b \in OrigFrames : SourceOf(a).timestamp # SourceOf(b).timestamp
    /\ (hookFrameCount * MicrosPerSecond) % fps # 0

\* C2: processVideo submits exactly round(frameDuration * fps) hook frames, the
\* i-th (from 0) with timestamp i * (1000000 / fps) and duration 1000000 / fps.
C2_HookFrames ==
    /\ HookFrames = 1..i
    /\ \A k \in HookFrames :
          /\ submitted[k].index = k - 1
          /\ submitted[k].tsDen = fps
          /\ submitted[k].tsNum = (k - 1) * 1000000
          /\ submitted[k].hasDuration
          /\ submitted[k].duration * fps <= 1000000
          /\ 1000000 < (submitted[k].duration + 1) * fps
    /\ "hooks" \in milestones =>
          /\ 2000 * Cardinality(HookFrames) <= 2 * frameDurationMs * fps + 1000
          /\ 2 * frameDurationMs * fps + 1000 < 2000 * (Cardinality(HookFrames) + 1)

\* The hook loop has ended for a hook of two and a half frames, rounded to three.
C2_Witness ==
    /\ "hooks" \in milestones
    /\ 2 * frameDurationMs * fps = 5000
    /\ Cardinality(HookFrames) = 3

\* C3 as stated: with fps 30 and frameDuration 1 the hook frame count is 30 and
\* consecutive hook timestamps, as integer microseconds, differ by exactly 33333.
C3_Original ==
    (fps = 30 /\ frameDurationMs = 1000) =>
        /\ "hooks" \in milestones => (i = 30 /\ Cardinality(HookFrames) = 30)
        /\ \A k \in 1..(i - 1) :
              /\ submitted[k].kind = "hook" /\ submitted[k + 1].kind = "hook"
              /\ submitted[k + 1].timestamp - submitted[k].timestamp = 33333

\* C3 amended: with fps 30 and frameDuration 1 the hook frame count is 30, the
\* i-th hook timestamp is the integer part of i * 1000000 / 30, and consecutive
\* hook timestamps differ by 33333 or by 33334.
C3_HookSpacing ==
    (fps = 30 /\ frameDurationMs = 1000) =>
        /\ "hooks" \in milestones => (i = 30 /\ Cardinality(HookFrames) = 30)
        /\ \A k \in 1..i :
              /\ submitted[k].kind = "hook"
              /\ 30 * submitted[k].timestamp <= (k - 1) * 1000000
              /\ (k - 1) * 1000000 < 30 * (submitted[k].timestamp + 1)
        /\ \A k \in 1..(i - 1) :
              submitted[k + 1].timestamp - submitted[k].timestamp \in {33333, 33334}

\* All thirty hook frames of the default options were submitted, with both spacings.
C3_Witness ==
    /\ fps = 30 /\ frameDurationMs = 1000
    /\ "hooks" \in milestones
    /\ Cardinality(HookFrames) = 30
    /\ submitted[3].timestamp - submitted[2].timestamp = 33333
    /\ submitted[4].timestamp - submitted[3].timestamp = 33334

\* C4: the only frame submitted with a key-frame request is the hook frame with
\* index 0; no other hook frame and no original frame requests one.
C4_OnlyFirstHookIsKey ==
    \A k \in DOMAIN submitted :
        submitted[k].keyFrame <=> (submitted[k].kind = "hook" /\ submitted[k].index = 0)

\* A key hook frame, a later hook frame and an original frame were submitted.
C4_Witness ==
    /\ Cardinality(HookFrames) >= 2
    /\ OrigFrames # {}
    /\ submitted[1].keyFrame

\* C5: the frames are submitted hook frames first, then original frames, and their
\* timestamps never decrease in submission order.
C5_MonotoneTimestamps ==
    /\ \A k \in 1..(Len(submitted) - 1) :
          /\ ~(submitted[k].kind = "orig" /\ submitted[k + 1].kind = "hook")
          /\ submitted[k].timestamp <= submitted[k + 1].timestamp

\* An original frame of timestamp 0 follows the last hook frame.
C5_Witness ==
    \E k \in OrigFrames :
        /\ k > 1
        /\ submitted[k - 1].kind = "hook"
        /\ SourceOf(k).timestamp = 0

\* C6: the stages do not overlap.  A frame is submitted only after the decode wait
\* has completed, and the decoder delivers no frame from then on; no frame is
\* submitted once flush has been called; flush has completed, with every accepted
\* frame emitted and no chunk arriving later, before audio capture starts, before
\* the Blob is assembled and before completion is reported.
C6_StagesInSequence ==
    /\ [][/\ submitted' # submitted =>
               ("decodeWait" \in milestones /\ "submitAll" \notin milestones)
          /\ "decodeWait" \in milestones => decodedFrames' = decodedFrames
          /\ "flush" \in milestones => (pending = 0 /\ encodedChunks' = encodedChunks)]_vars
    /\ [](/\ pc \in {"hookLoop", "origLoop", "awaitBitmap"} => "decodeWait" \in milestones
          /\ pc = "awaitFlush" => {"decodeWait", "hooks", "submitAll"} \subseteq milestones
          /\ pc = "awaitAudio" => "flush" \in milestones
          /\ "blob" \in milestones => {"flush", "audio"} \subseteq milestones
          /\ "flush" \in milestones => "submitAll" \in milestones
          /\ "submitAll" \in milestones => {"decodeWait", "hooks"} \subseteq milestones
          /\ pc = "resolved" => AllMilestones \subseteq milestones)

\* A run with hook and original frames has resolved.
C6_Witness ==
    /\ pc = "resolved"
    /\ HookFrames # {}
    /\ OrigFrames # {}
    /\ result = <<Len(submitted)>>

\* C7: in a run that resolves with a Blob the last call of the progress callback
\* is (100, PROCESSING_COMPLETE), made after the decode wait, the encoding, the
\* audio capture and the closing of both codecs; no call follows it.
C7_FinalProgress ==
    /\ [](pc = "resolved" =>
            /\ result # NoBlob
            /\ hasCallback => Last(progressLog) = <<100, PROCESSING_COMPLETE>>
            /\ AllMilestones \subseteq milestones
            /\ decoderState = "closed"
            /\ encoderState = "closed")
    /\ [][pc = "resolved" => progressLog' = progressLog]_vars

\* A run with a progress callback has resolved.
C7_Witness ==
    /\ pc = "resolved"
    /\ hasCallback
    /\ Len(progressLog) > 1

\* C8: a run of processVideo that fails rejects with the error and returns no
\* Blob; at the rejection the last progress call is (0, ERROR_PROCESSING + message),
\* isProcessing is false and error (and the wrapper's error) holds the message.
C8_RejectionState ==
    /\ [][(pc' = "rejected" /\ pc # "rejected" /\ innerStarted') =>
             /\ thrown' # NoError
             /\ error' = thrown'
             /\ caller' = "wrapper" => wrapperError' = thrown'
             /\ isProcessing' = FALSE
             /\ result' = NoBlob
             /\ hasCallback' => Last(progressLog') = <<0, ERROR_PROCESSING \o thrown'>>]_vars
    /\ []((pc = "rejected" /\ innerStarted) =>
             /\ result = NoBlob
             /\ isProcessing = FALSE
             /\ hasCallback => Last(progressLog) = <<0, ERROR_PROCESSING \o thrown>>)

\* A run called through the wrapper was rejected after frames were submitted.
C8_Witness ==
    /\ pc = "rejected"
    /\ innerStarted
    /\ caller = "wrapper"
    /\ hasCallback
    /\ submitted # <<>>

\* C9: a run in which the decoder's error callback fired submits no frame to the
\* encoder and does not resolve.
C9_DecoderFaultAborts ==
    decoderErrorFired => (submitted = <<>> /\ pc # "resolved")

\* C10: a run in which the encoder's error callback fired does not resolve with a
\* Blob.
C10_EncoderFaultAborts ==
    encoderErrorFired => result = NoBlob

\* C11: when the container has no avc1 track, or the track has no avcC record,
\* the run rejects with that error; the decoder is not configured and is fed no data.
C11_NoDecodeWithoutConfig ==
    avcRejection = AVC_NOT_FOUND =>
        /\ pc = "rejected"
        /\ thrown = AVC_NOT_FOUND
        /\ decoderState # "configured"
        /\ ~decodeFed

\* The strategies the error of a HEIC image reports.
HeicStrategies == {"libheif", "heic2any", "native", "dataUrl"}
Contains(parts, m) == \E k \in DOMAIN parts : parts[k] = m
HasMessage(e) == e.kind \in {"Error", "string", "object"}

\* C12: when libheif-js, heic2any, the native createImageBitmap and the data URL
\* round trip have all failed for a HEIC image, processVideo rejects with the error
\* of loadImage, whose message contains the message of the failure of each of the
\* four strategies (for each failure that has a message) and is not the generic
\* message of an image that cannot be loaded.
C12_HeicErrorNamesAllStrategies ==
    (\A st \in HeicStrategies : Failed(imageFailures[st])) =>
        /\ pc = "rejected"
        /\ thrown = Join(imageErrorParts)
        /\ error = thrown
        /\ thrown # IMAGE_FAILED
        /\ ~Contains(imageErrorParts, IMAGE_FAILED)
        /\ \A st \in HeicStrategies :
              HasMessage(imageFailures[st]) =>
                  Contains(imageErrorParts, imageFailures[st].message)

\* The four strategies failed, with an Error, an object, a string and an Error.
C12_Witness ==
    /\ pc = "rejected"
    /\ imageFailures.libheif = [kind |-> "Error", message |-> LIBHEIF_FAILED]
    /\ imageFailures.heic2any = [kind |-> "object", message |-> HEIC2ANY_FAILED]
    /\ imageFailures.native = [kind |-> "string", message |-> NATIVE_FAILED]
    /\ imageFailures.dataUrl = [kind |-> "Error", message |-> DATA_URL_FAILED]
    /\ Len(imageErrorParts) > 8

\* C13: extractAudio never rejects; when audio capture fails (AudioContext, play or
\* MediaRecorder throws, or the video element reports an error) it resolves with no
\* audio, and processVideo goes on to assemble the Blob from the video chunks and
\* resolves with it; nothing of the audio stage makes the run reject.
C13_AudioFailureNotFatal ==
    /\ audioPc # "rejected"
    /\ thrown # AUDIO_FAILED
    /\ audioOutcome \in {"threw", "videoError"} =>
          /\ audioPc = "resolved"
          /\ pc \in {"awaitAudio", "resolved", "rejected"}
          /\ pc # "awaitAudio" => "blob" \in milestones
          /\ pc = "resolved" => result = <<encodedChunks>>
          /\ pc = "rejected" => thrown \in {DECODER_CLOSE_FAILED, ENCODER_CLOSE_FAILED}

\* A run whose audio capture threw has resolved with the Blob of its video chunks.
C13_Witness ==
    /\ pc = "resolved"
    /\ audioOutcome = "threw"
    /\ encodedChunks > 0
    /\ result = <<encodedChunks>>

\* C14: in a run that resolves, the frames submitted to the encoder are the hook
\* frames and one frame for each frame the decoder delivered, and the Blob has one
\* chunk for each submitted frame.
C14_AllFramesSubmitted ==
    pc = "resolved" =>
        /\ Len(submitted) = Len(decodedFrames) + hookFrameCount
        /\ Cardinality(OrigFrames) = Len(decodedFrames)
        /\ result = <<Len(submitted)>>

\* C15: the wait for the end of decoding ends, whatever the decoder does: a run
\* that is at the decode wait leaves it.
C15_DecodeWaitEnds ==
    (pc = "decodeWait") ~> (pc # "decodeWait")

\* C16: extractAudio settles, whatever the video element does: once processVideo
\* awaits it, its promise is settled at some later moment.
C16_AudioAlwaysSettles ==
    (pc = "awaitAudio") ~> (audioPc \in {"resolved", "rejected"})

\* C17: when processVideo rejects after the decoder and the encoder were created,
\* both are closed.
C17_HandlesClosedOnReject ==
    (pc = "rejected" /\ decoderState # "none" /\ encoderState # "none") =>
        (decoderState = "closed" /\ encoderState = "closed")

\* C18: when processVideo has settled, every frame the decoder delivered, every
\* hook frame, every re-rendered frame and every bitmap of the run has been closed.
C18_NoFrameLeak ==
    pc \in {"resolved", "rejected"} =>
        \A x \in DOMAIN closeCount : closeCount[x] >= 1

\* C19: no frame and no bitmap is closed twice, also when a frame is skipped.
C19_NoDoubleClose ==
    \A x \in DOMAIN closeCount : closeCount[x] <= 1

\* A run has resolved in which one decoded frame was skipped and closed, another
\* was encoded, and hook frames were encoded.
C19_Witness ==
    /\ pc = "resolved"
    /\ Len(decodedFrames) = 2
    /\ Cardinality(OrigFrames) = 1
    /\ HookFrames # {}
    /\ \A x \in DOMAIN closeCount : closeCount[x] = 1
    /\ Cardinality(DOMAIN closeCount) = Len(decodedFrames) + hookFrameCount + 2

\* The progress messages of a run that has only tested the capability.
SupportMessages ==
    {CHECKING_SUPPORT, WEBCODECS_PROCESSING, NOT_SUPPORTED, ERROR_PROCESSING \o NOT_SUPPORTED}

\* C20: without the WebCodecs classes the run fails before any other stage.
\* processVideo tests the capability once, on entry; when the test fails it rejects
\* with the not-supported message, having converted no video, loaded no image and
\* created no decoder or encoder, and nothing is run again; useVideoProcessor does
\* not call processVideo at all when its support flag is false.
C20_SupportCheckedFirst ==
    /\ [](/\ supportChecks <= 1
          /\ innerStarted => supportChecks = 1
          /\ ~hostSupported =>
                /\ pc \in {"idle", "rejected"}
                /\ decoderState = "none" /\ encoderState = "none"
                /\ imageFailures = NoAttempts /\ avcRejection = AvcPending
                /\ milestones = {} /\ result = NoBlob
                /\ \A k \in DOMAIN progressLog : progressLog[k][2] \in SupportMessages
                /\ pc = "rejected" => thrown = NOT_SUPPORTED
                /\ caller = "wrapper" => (~innerStarted /\ supportChecks = 0))
    /\ [][(pc = "rejected" /\ thrown = NOT_SUPPORTED) => UNCHANGED vars]_vars

\* processVideo, called directly with a progress callback, has rejected for want
\* of the capability after one test.
C20_Witness ==
    /\ pc = "rejected"
    /\ thrown = NOT_SUPPORTED
    /\ caller = "direct"
    /\ innerStarted
    /\ supportChecks = 1
    /\ hasCallback
\* C23: the options of a re-submitted original frame hold a duration exactly when
\* the decoded frame's duration is neither null nor undefined, and then it is the
\* decoded frame's duration: an absent duration is left out, and a duration of
\* zero is passed through as zero.
C23_DurationPassedThrough ==
    \A k \in OrigFrames :
        /\ submitted[k].hasDuration = SourceOf(k).hasDuration
        /\ submitted[k].hasDuration => submitted[k].duration = SourceOf(k).duration

\* One run re-submits a frame whose duration
\* is zero and a frame that has no duration.
C23_Witness ==
    /\ \E k \in OrigFrames :
          /\ SourceOf(k).hasDuration /\ SourceOf(k).duration = 0
          /\ submitted[k].hasDuration /\ submitted[k].duration = 0
    /\ \E k \in OrigFrames : ~SourceOf(k).hasDuration /\ ~submitted[k].hasDuration

\* C29: in every run that resolves, the progress values reported to the callback
\* never decrease, whatever the input, a .mov video included.
C29_ProgressNeverDecreases ==
    pc = "resolved" =>
        \A k \in 1..(Len(progressLog) - 1) : progressLog[k][1] <= progressLog[k + 1][1]

\* C30: the first frame submitted to the encoder carries a key-frame request,
\* also when the hook image contributes no frame (hookFrameCount = 0).
C30_FirstFrameIsKey ==
    submitted # <<>> => submitted[1].keyFrame

\* C21: when MP4Box reports the tracks, extractAvcDescriptionFromMp4 resolves with
\* the configuration bytes of the first track, in container order, whose codec
\* starts with "avc1"; it rejects when no track matches and when that first
\* matching track has no configuration record, without going on to a later track.
C21_FirstAvcTrack ==
    (avcPc = "loaded" /\ avcFile.buffer \notin {"null", "other"} /\ avcFile.parse = "ready") =>
        LET tracks == avcFile.tracks
            Matching == {k \in DOMAIN tracks : StartsWith(tracks[k].codec, AVC1)}
        IN  IF Matching = {}
              THEN avcPromise = Rejected(AVC_NOT_FOUND)
              ELSE LET first == CHOOSE k \in Matching : \A m \in Matching : k <= m
                   IN  IF tracks[first].avcC.present
                         THEN avcPromise = Resolved(tracks[first].avcC.buffer)
                         ELSE avcPromise = Rejected(AVC_NOT_FOUND)

\* The first avc1 track has no record and a later avc1 track has one: the call
\* was rejected.
C21_Witness ==
    /\ avcPc = "loaded"
    /\ avcFile.parse = "ready"
    /\ Len(avcFile.tracks) = 2
    /\ StartsWith(avcFile.tracks[1].codec, AVC1) /\ ~avcFile.tracks[1].avcC.present
    /\ StartsWith(avcFile.tracks[2].codec, AVC1) /\ avcFile.tracks[2].avcC.present
    /\ avcPromise = Rejected(AVC_NOT_FOUND)

\* C28: the promise extractAvcDescriptionFromMp4 returns is settled in the end,
\* also when MP4Box calls neither onReady nor onError.
C28_AvcAlwaysSettles ==
    (avcPc = "reading") ~> (avcPromise.state # "pending")

\* C27: isProcessing is true whenever at least one call of processVideo is in
\* flight (entered and not yet settled), also when calls overlap and one of them
\* settles before the others.
C27_ProcessingWhileInFlight ==
    (\E c \in 1..MaxCalls : calls[c] = "running") => isProcessing

\* C26: a request to the upload endpoint that lacks the video file or the image
\* file is answered with status 400 and the message "Both video and image files
\* are required", and processVideo is never started for it.
C26_MissingFileIs400 ==
    (endpointPc = "responded" /\ ~request.parseFails
        /\ (~Kept(request.video) \/ ~Kept(request.image))) =>
        /\ response.status = 400
        /\ response.message = BOTH_REQUIRED
        /\ ~processStarted

\* C24: a run of process_video.js never overwrites the output of an earlier run:
\* when the file processed_<name> is already there, a run whose inputs and tools
\* are in order writes its output under a name that was free (processed_<name>_1,
\* processed_<name>_2, ...) and leaves every earlier file as it was.
C24_NeverOverwrites ==
    \A n \in DOMAIN cliRuns :
        LET run == cliRuns[n]
            target == OutputVideo(OutputDir, run.videoPath)
        IN  (/\ run.before[target] # 0
             /\ run.env.videoExists /\ run.env.imageExists /\ run.env.ffmpegWorks
             /\ (run.env.isHeic => run.env.magickWorks)) =>
                /\ \A f \in OutputPaths : run.before[f] # 0 => run.after[f] = run.before[f]
                /\ run.outcome = "resolved"
                /\ run.output # target

\* C25: for a HEIC image loadImage tries libheif-js, heic2any, the native decode
\* and the data URL round trip in this order: a strategy is attempted only after
\* every strategy before it was attempted and failed, and nothing is attempted
\* after a strategy has produced the bitmap; for any other image exactly one
\* direct decode is attempted.  (The decode of the JPEG a library produced is
\* part of that library's strategy.)
C25_StrategiesInOrder ==
    LET order == <<"libheif", "heic2any", "native", "dataUrl">>
        tried == SelectSeq(imageTried, LAMBDA st : st # "jpegBitmap")
    IN  IF imageHost.heic
          THEN /\ Len(tried) <= Len(order)
               /\ tried = SubSeq(order, 1, Len(tried))
               /\ imagePc = "bitmap" => \A k \in 1..(Len(tried) - 1) :
                                           ~imageHost.works[tried[k]]
          ELSE imagePc \in {"bitmap", "rejected"} => imageTried = <<"direct">>

\* The rectangle the image would occupy were the arithmetic exact: the image
\* scaled by min(W / w, H / h) and centred.
ExactRectangle(W, H, w, h) ==
    LET dw == IF Less(<<w * H, h>>, Num(W)) THEN <<w * H, h>> ELSE Num(W)
        dh == IF Less(<<h * W, w>>, Num(H)) THEN <<h * W, w>> ELSE Num(H)
    IN  [x |-> <<W * dw[2] - dw[1], 2 * dw[2]>>, y |-> <<H * dh[2] - dh[1], 2 * dh[2]>>,
         w |-> dw, h |-> dh]

\* |a - b| <= len * 2^(2 - MantissaBits): a and b differ by no more than the
\* rounding of a few operations on values of the size of len.
Within(a, b, len) ==
    LET diff == a[1] * b[2] - b[1] * a[2]
    IN  (IF diff < 0 THEN -diff ELSE diff) * Pow2(MantissaBits - 2) <= len * a[2] * b[2]

\* C22: the canvas has exactly the target size, the background is filled before
\* the image is drawn, and the image is drawn scaled by min(W / w, H / h) and
\* centred, up to the rounding of the arithmetic: each coordinate of the drawn
\* rectangle is within its side * 2^(2 - MantissaBits) of the exact rectangle, whose
\* offsets are not negative, which lies inside the canvas and which spans the
\* whole canvas on one axis at least.
C22_GeometryUpToRounding ==
    canvas.state = "returned" =>
        LET c == canvasInput
            d == canvas.ops[2]
            e == ExactRectangle(c.width, c.height, c.imgWidth, c.imgHeight)
        IN  /\ canvas.width = c.width /\ canvas.height = c.height
            /\ Len(canvas.ops) = 2
            /\ canvas.ops[1] = FillRect(c.width, c.height)
            /\ d.op = "drawImage"
            /\ Within(d.x, e.x, c.width) /\ Within(d.w, e.w, c.width)
            /\ Within(d.y, e.y, c.height) /\ Within(d.h, e.h, c.height)
            /\ ~Less(e.x, Num(0)) /\ ~Less(e.y, Num(0))
            /\ ~Less(Num(c.width), <<e.x[1] + 2 * e.w[1], e.x[2]>>)
            /\ ~Less(Num(c.height), <<e.y[1] + 2 * e.h[1], e.y[2]>>)
            /\ Same(e.w, Num(c.width)) \/ Same(e.h, Num(c.height))

\* A canvas was returned whose image is drawn with a negative vertical offset (the
\* rounded height exceeds the canvas) and a positive horizontal one.
C22_Witness ==
    /\ canvas.state = "returned"
    /\ Less(canvas.ops[2].y, Num(0))
    /\ Less(Num(0), canvas.ops[2].x)

\* C22, as claimed: the canvas has exactly the target size, the background is
\* filled before the image is drawn, and the drawn rectangle has no negative
\* offset, lies inside the canvas and spans the whole canvas on one axis at least.
C22_Geometry ==
    canvas.state = "returned" =>
        LET W == Num(canvas.width)
            H == Num(canvas.height)
            d == canvas.ops[2]
        IN  /\ canvas.width = canvasInput.width /\ canvas.height = canvasInput.height
            /\ Len(canvas.ops) = 2
            /\ canvas.ops[1] = FillRect(canvasInput.width, canvasInput.height)
            /\ d.op = "drawImage"
            /\ ~Less(d.x, Num(0)) /\ ~Less(d.y, Num(0))
            /\ ~Less(W, <<d.x[1] * d.w[2] + d.w[1] * d.x[2], d.x[2] * d.w[2]>>)
            /\ ~Less(H, <<d.y[1] * d.h[2] + d.h[1] * d.y[2], d.y[2] * d.h[2]>>)
            /\ Same(d.w, W) \/ Same(d.h, H)

====
